---- MODULE Spec2Model ----
(***************************************************************************)
(* A model of the SkyPanel scripts: config.py (load_env, get_config),      *)
(* session.py (create_session, save_session, load_session, main),          *)
(* get_feeds.py (fetch, the four query wrappers, main) and                 *)
(* capture_responses.py (main).                                            *)
(*                                                                         *)
(* Text (a Python str, a file's content, a URL) is a sequence of           *)
(* characters.  A character is a one-element TLA+ string; a word that the  *)
(* code never looks inside ("null", "xrpc", "PDSHOST", a host name) is     *)
(* written as one element as well.                                         *)
(***************************************************************************)
EXTENDS Integers, Sequences, FiniteSets, TLC

DQ == "\""
BS == "\\"
NL == "\n"
TAB == "\t"
SP == " "

Last(s) == s[Len(s)]
Front(s) == SubSeq(s, 1, Len(s) - 1)

RECURSIVE Concat(_)
Concat(ss) == IF ss = <<>> THEN <<>> ELSE Head(ss) \o Concat(Tail(ss))

RECURSIVE Repeat(_, _)
Repeat(c, n) == IF n <= 0 THEN <<>> ELSE <<c>> \o Repeat(c, n - 1)

RECURSIVE SeqsUpTo(_, _)
SeqsUpTo(S, n) ==
    IF n = 0 THEN {<<>>}
    ELSE LET shorter == SeqsUpTo(S, n - 1)
         IN  shorter \cup {Append(s, x) : s \in shorter, x \in S}

(***************************************************************************)
(* JSON values as Python's json module holds them: None, bool, int, float  *)
(* (only the three constants the decoder names), str, list and dict.  Every *)
(* value is a record of the same shape, so that any two can be compared.   *)
(* A dict keeps its keys in insertion order (keys[i] maps to kids[i]).     *)
(***************************************************************************)
JVal(t, n, s, keys, kids) == [t |-> t, n |-> n, s |-> s, keys |-> keys, kids |-> kids]
JNull == JVal("null", 0, <<>>, <<>>, <<>>)
JBool(b) == JVal(IF b THEN "true" ELSE "false", 0, <<>>, <<>>, <<>>)
JInt(n) == JVal("int", n, <<>>, <<>>, <<>>)
JFloat(c) == JVal("float", 0, c, <<>>, <<>>)
JStr(s) == JVal("str", 0, s, <<>>, <<>>)
JArr(kids) == JVal("list", 0, <<>>, <<>>, kids)
JObj(keys, kids) == JVal("dict", 0, <<>>, keys, kids)

\* The float constants of json.decoder: NaN, Infinity, -Infinity.
NaN == <<"NaN">>
PosInf == <<"Infinity">>
NegInf == <<"-", "Infinity">>

\* dict.get(key): the value, or None.
HasKey(d, key) == d.t = "dict" /\ \E i \in 1..Len(d.keys) : d.keys[i] = key
DictGet(d, key) ==
    IF HasKey(d, key)
    THEN d.kids[CHOOSE i \in 1..Len(d.keys) : d.keys[i] = key]
    ELSE JNull

\* d[key] = v: a new key goes last, an existing key keeps its place.
DictSet(keys, kids, key, v) ==
    IF \E i \in 1..Len(keys) : keys[i] = key
    THEN [keys |-> keys,
          kids |-> [i \in 1..Len(kids) |-> IF keys[i] = key THEN v ELSE kids[i]]]
    ELSE [keys |-> Append(keys, key), kids |-> Append(kids, v)]

\* Python truthiness (bool(v)) of a decoded JSON value.
Truthy(v) ==
    CASE v.t = "null" -> FALSE
      [] v.t = "false" -> FALSE
      [] v.t = "true" -> TRUE
      [] v.t = "int" -> v.n # 0
      [] v.t = "float" -> TRUE
      [] v.t = "str" -> v.s # <<>>
      [] v.t = "list" -> v.kids # <<>>
      [] OTHER -> v.keys # <<>>

(***************************************************************************)
(* json.dump(obj, f, indent=2): the encoder.                               *)
(***************************************************************************)
indent == 2

Digits == <<"0", "1", "2", "3", "4", "5", "6", "7", "8", "9">>
IsDigit(c) == \E d \in 1..10 : Digits[d] = c
DigitVal(c) == (CHOOSE d \in 1..10 : Digits[d] = c) - 1

RECURSIVE NatText(_)
NatText(n) == IF n < 10 THEN <<Digits[n + 1]>> ELSE NatText(n \div 10) \o <<Digits[(n % 10) + 1]>>

\* int.__repr__
IntText(n) == IF n < 0 THEN <<"-">> \o NatText(-n) ELSE NatText(n)

\* ESCAPE_DCT of json.encoder (the entries the model's characters need).
EscapeChar(c) ==
    CASE c = DQ -> <<BS, DQ>>
      [] c = BS -> <<BS, BS>>
      [] c = NL -> <<BS, "n">>
      [] c = TAB -> <<BS, "t">>
      [] OTHER -> <<c>>

\* encode_basestring_ascii: the quoted, escaped string.
encode_basestring(s) ==
    <<DQ>> \o Concat([i \in 1..Len(s) |-> EscapeChar(s[i])]) \o <<DQ>>

\* The newline and indentation the encoder writes before an item at a level.
NewlineIndent(level) == <<NL>> \o Repeat(SP, indent * level)

RECURSIVE iterencode(_, _)
iterencode(v, level) ==
    CASE v.t \in {"null", "true", "false"} -> <<v.t>>
      [] v.t = "int" -> IntText(v.n)
      [] v.t = "float" -> v.s
      [] v.t = "str" -> encode_basestring(v.s)
      [] v.t = "list" ->
            IF v.kids = <<>> THEN <<"[", "]">>
            ELSE <<"[">>
                 \o Concat([i \in 1..Len(v.kids) |->
                        (IF i = 1 THEN <<>> ELSE <<",">>)
                        \o NewlineIndent(level + 1)
                        \o iterencode(v.kids[i], level + 1)])
                 \o NewlineIndent(level) \o <<"]">>
      [] OTHER ->
            IF v.keys = <<>> THEN <<"{", "}">>
            ELSE <<"{">>
                 \o Concat([i \in 1..Len(v.keys) |->
                        (IF i = 1 THEN <<>> ELSE <<",">>)
                        \o NewlineIndent(level + 1)
                        \o encode_basestring(v.keys[i]) \o <<":", SP>>
                        \o iterencode(v.kids[i], level + 1)])
                 \o NewlineIndent(level) \o <<"}">>

\* json.dump(obj, f, indent=2), as save_session calls it.
json_dumps(v) == iterencode(v, 0)

\* The encoder without indent: items and keys joined by the separators
\* (json.dumps(payload) uses ", " and ": ").
RECURSIVE encode(_, _, _)
encode(v, item_separator, key_separator) ==
    CASE v.t \in {"null", "true", "false"} -> <<v.t>>
      [] v.t = "int" -> IntText(v.n)
      [] v.t = "float" -> v.s
      [] v.t = "str" -> encode_basestring(v.s)
      [] v.t = "list" ->
            <<"[">> \o Concat([i \in 1..Len(v.kids) |->
                        (IF i = 1 THEN <<>> ELSE item_separator)
                        \o encode(v.kids[i], item_separator, key_separator)])
            \o <<"]">>
      [] OTHER ->
            <<"{">> \o Concat([i \in 1..Len(v.keys) |->
                        (IF i = 1 THEN <<>> ELSE item_separator)
                        \o encode_basestring(v.keys[i]) \o key_separator
                        \o encode(v.kids[i], item_separator, key_separator)])
            \o <<"}">>

(***************************************************************************)
(* json.load / json.loads: the decoder (JSONDecoder.decode, py_scanstring, *)
(* JSONObject, JSONArray, scan_once).  Fractions, exponents and \uXXXX     *)
(* escapes are left out: no text of the model holds them.                  *)
(***************************************************************************)
IsWs(c) == c \in {SP, NL, TAB, "\r"}

RECURSIVE SkipWs(_, _)
SkipWs(text, i) == IF i <= Len(text) /\ IsWs(text[i]) THEN SkipWs(text, i + 1) ELSE i

At(text, i) == IF i >= 1 /\ i <= Len(text) THEN text[i] ELSE "EOF"

Parsed(v, i) == [ok |-> TRUE, val |-> v, i |-> i]
ParseError == [ok |-> FALSE, val |-> JNull, i |-> 0]

\* BACKSLASH of json.decoder.
IsEscape(c) == c \in {DQ, BS, "/", "n", "t"}
Unescape(c) ==
    CASE c = "n" -> NL
      [] c = "t" -> TAB
      [] OTHER -> c

\* py_scanstring (strict): i is the place after the opening quote.
RECURSIVE scanstring(_, _, _)
scanstring(text, i, acc) ==
    IF i > Len(text) THEN ParseError
    ELSE IF text[i] = DQ THEN Parsed(JStr(acc), i + 1)
    ELSE IF text[i] = BS THEN
        IF IsEscape(At(text, i + 1))
        THEN scanstring(text, i + 2, Append(acc, Unescape(text[i + 1])))
        ELSE ParseError
    ELSE IF text[i] \in {NL, TAB, "\r"} THEN ParseError
    ELSE scanstring(text, i + 1, Append(acc, text[i]))

\* NUMBER_RE, integer part: (0|[1-9][0-9]*); i is at the first digit.
RECURSIVE ScanDigits(_, _, _)
ScanDigits(text, i, acc) ==
    IF IsDigit(At(text, i))
    THEN ScanDigits(text, i + 1, acc * 10 + DigitVal(text[i]))
    ELSE [n |-> acc, i |-> i]

ScanInt(text, i, sign) ==
    IF At(text, i) = "0" THEN Parsed(JInt(0), i + 1)
    ELSE LET r == ScanDigits(text, i, 0) IN Parsed(JInt(sign * r.n), r.i)

RECURSIVE scan_once(_, _, _)
RECURSIVE JSONObject(_, _, _, _, _)
RECURSIVE JSONArray(_, _, _, _)

\* One value starting at i.  parse_constant is the callback that receives
\* NaN, Infinity and -Infinity: json.load's default accepts them.
scan_once(text, i, parse_constant) ==
    LET c == At(text, i) IN
    CASE c = DQ -> scanstring(text, i + 1, <<>>)
      [] c = "{" ->
            LET j == SkipWs(text, i + 1) IN
            IF At(text, j) = "}" THEN Parsed(JObj(<<>>, <<>>), j + 1)
            ELSE IF At(text, j) = DQ THEN JSONObject(text, j + 1, <<>>, <<>>, parse_constant)
            ELSE ParseError
      [] c = "[" ->
            LET j == SkipWs(text, i + 1) IN
            IF At(text, j) = "]" THEN Parsed(JArr(<<>>), j + 1)
            ELSE JSONArray(text, j, <<>>, parse_constant)
      [] c = "null" -> Parsed(JNull, i + 1)
      [] c = "true" -> Parsed(JBool(TRUE), i + 1)
      [] c = "false" -> Parsed(JBool(FALSE), i + 1)
      [] IsDigit(c) -> ScanInt(text, i, 1)
      [] c = "-" /\ IsDigit(At(text, i + 1)) -> ScanInt(text, i + 1, -1)
      [] c = "NaN" /\ parse_constant -> Parsed(JFloat(NaN), i + 1)
      [] c = "Infinity" /\ parse_constant -> Parsed(JFloat(PosInf), i + 1)
      [] c = "-" /\ At(text, i + 1) = "Infinity" /\ parse_constant ->
            Parsed(JFloat(NegInf), i + 2)
      [] OTHER -> ParseError

\* The members of an object; i is the place after a key's opening quote.
JSONObject(text, i, keys, kids, parse_constant) ==
    LET key == scanstring(text, i, <<>>) IN
    IF ~key.ok THEN ParseError
    ELSE LET colon == SkipWs(text, key.i) IN
    IF At(text, colon) # ":" THEN ParseError
    ELSE LET value == scan_once(text, SkipWs(text, colon + 1), parse_constant) IN
    IF ~value.ok THEN ParseError
    ELSE LET pairs == DictSet(keys, kids, key.val.s, value.val)
             next == SkipWs(text, value.i)
         IN
    IF At(text, next) = "}" THEN Parsed(JObj(pairs.keys, pairs.kids), next + 1)
    ELSE IF At(text, next) # "," THEN ParseError
    ELSE LET q == SkipWs(text, next + 1) IN
    IF At(text, q) # DQ THEN ParseError
    ELSE JSONObject(text, q + 1, pairs.keys, pairs.kids, parse_constant)

\* The items of an array; i is at an item's first character.
JSONArray(text, i, kids, parse_constant) ==
    LET value == scan_once(text, i, parse_constant) IN
    IF ~value.ok THEN ParseError
    ELSE LET next == SkipWs(text, value.i) IN
    IF At(text, next) = "]" THEN Parsed(JArr(Append(kids, value.val)), next + 1)
    ELSE IF At(text, next) # "," THEN ParseError
    ELSE JSONArray(text, SkipWs(text, next + 1), Append(kids, value.val), parse_constant)

\* JSONDecoder.decode: one value between optional whitespace, nothing after.
decode(text, parse_constant) ==
    LET r == scan_once(text, SkipWs(text, 1), parse_constant) IN
    IF r.ok /\ SkipWs(text, r.i) = Len(text) + 1 THEN r ELSE ParseError

\* json.loads(text) with the defaults the scripts use.
json_loads(text) == decode(text, TRUE)

(***************************************************************************)
(* State.                                                                  *)
(***************************************************************************)
VARIABLES
    environ,       \* os.environ of the running process: key text -> value text
    dotenv,        \* the .env file: whether it exists, and its lines
    session_json,  \* the file session.json: NoFile, or its text
    cfg,           \* the configuration record the caller holds
    session,       \* the session record the caller holds
    prog,          \* the entry point that runs (SpecMain only)
    pc,            \* where the caller is
    call,          \* the call in progress or just ended: its name and arguments
    requests,      \* the HTTP requests issued since the call (or the run) began
    outcome        \* how the last call ended

vars == <<environ, dotenv, session_json, cfg, session, prog, pc, call, requests, outcome>>

NoFile == <<"<no file>">>
NoEnvFile == [exists |-> FALSE, lines |-> <<>>]
EnvFile(lines) == [exists |-> TRUE, lines |-> lines]
NoCall == [name |-> "none"]
NoOutcome == [call |-> "none", kind |-> "none", val |-> JNull, error |-> "none"]
Return(name, v) == [call |-> name, kind |-> "return", val |-> v, error |-> "none"]
Raise(name, e) == [call |-> name, kind |-> "raise", val |-> JNull, error |-> e]
NoConfig == [pds_host |-> <<>>, handle |-> <<>>, password |-> <<>>]

(***************************************************************************)
(* session.py: save_session and load_session.                              *)
(***************************************************************************)
\* A save that opens the file in append mode.
save_session_append(sess, old) ==
    IF old = NoFile THEN json_dumps(sess) ELSE old \o json_dumps(sess)

\* open(path, "w") truncates the file (old is what it held); json.dump
\* writes the text.
save_session(sess, old) == json_dumps(sess)

\* open(path, "r") raises when the file is absent; json.load decodes it.
load_session(content) ==
    IF content = NoFile THEN Raise("load_session", "FileNotFoundError")
    ELSE LET r == json_loads(content) IN
         IF r.ok THEN Return("load_session", r.val)
         ELSE Raise("load_session", "JSONDecodeError")

\* lines 12-14 of create_session, and 20-22 of fetch: the body of a response
\* is decoded as JSON; an HTTP error status or a transport error raises.
read_response(name, resp) ==
    IF resp.status = "URLError" THEN Raise(name, "URLError")
    ELSE IF resp.status # "200" THEN Raise(name, "HTTPError")
    ELSE LET r == json_loads(resp.body) IN
         IF r.ok THEN Return(name, r.val) ELSE Raise(name, "JSONDecodeError")

(***************************************************************************)
(* The session store: SpecStore runs create_session, save_session and      *)
(* load_session over bounded sets of server responses and of earlier       *)
(* contents of session.json.                                               *)
(***************************************************************************)
MaxStrLen == 2
MaxKids == 2

StrChars == {"a", DQ, BS, NL}
Strings == SeqsUpTo(StrChars, MaxStrLen)
Leaves == {JNull, JBool(TRUE), JInt(-1), JInt(10), JFloat(NaN), JStr(<<"a">>)}
Scalars ==
    {JNull, JBool(TRUE), JBool(FALSE), JInt(0), JInt(-1), JInt(10), JInt(207),
     JFloat(NaN), JFloat(PosInf), JFloat(NegInf)}
    \cup {JStr(s) : s \in Strings}
RecordKeys == {<<"accessJwt">>, <<"did", DQ>>}
Inner ==
    Scalars
    \cup {JArr(k) : k \in SeqsUpTo(Leaves, MaxKids)}
    \cup {JObj(<<>>, <<>>)}
    \cup {JObj(<<k>>, <<v>>) : k \in RecordKeys, v \in Leaves}
\* The session records the server's responses encode.
Records ==
    {JObj(<<>>, <<>>)}
    \cup {JObj(<<k>>, <<v>>) : k \in RecordKeys, v \in Inner}
    \cup {JObj(<<k[1], k[2]>>, <<v1, v2>>) :
            k \in {kk \in RecordKeys \X RecordKeys : kk[1] # kk[2]},
            v1 \in Leaves, v2 \in Inner}

\* The server's own serialisation: compact JSON.
Compact(v) == encode(v, <<",">>, <<":">>)

\* A response with a repeated key, and responses that are not JSON.
OddBodies ==
    { <<"{", DQ, "accessJwt", DQ, ":", "1", ",", DQ, "jwt", DQ, ":", "2", ",",
        DQ, "accessJwt", DQ, ":", "3", "}">>,
      <<"{", DQ, "accessJwt", DQ, ":", DQ, "a", DQ, ",", "}">>,
      <<"<html>">>,
      <<>> }
SessionBodies == {Compact(v) : v \in Records} \cup OddBodies

\* What session.json may hold before the run: nothing, an earlier session
\* (longer than most new ones), an empty file, a write cut short, a
\* hand-edited file with the constant NaN, and text that is not JSON.
OldSession ==
    JObj(<< <<"accessJwt">>, <<"refreshJwt">>, <<"handle">> >>,
         << JStr(<<"old", "token">>), JStr(<<"old", "refresh">>),
            JArr(<<JStr(<<"alice.test">>), JInt(1), JInt(2), JInt(3)>>) >>)
OldFiles ==
    { NoFile,
      json_dumps(OldSession),
      <<>>,
      SubSeq(json_dumps(OldSession), 1, 12),
      <<"{", DQ, "accessJwt", DQ, ":", SP, "NaN", "}">>,
      <<"{", DQ, "accessJwt", DQ, ":", SP, DQ, "t", DQ, ",", "}">>,
      <<"not", SP, "json">> }

InitStore ==
    /\ environ = <<>>
    /\ dotenv = NoEnvFile
    /\ session_json \in OldFiles
    /\ cfg = NoConfig
    /\ session = JNull
    /\ prog = "none"
    /\ pc = "idle"
    /\ call = NoCall
    /\ requests = <<>>
    /\ outcome = NoOutcome

\* sess = create_session(cfg), the HTTP exchange left to Spec: the server
\* answers 200 with some body.
StoreCreateSession ==
    /\ pc = "idle"
    /\ outcome.call = "none"
    /\ \E body \in SessionBodies :
          LET r == read_response("create_session", [status |-> "200", body |-> body]) IN
          /\ outcome' = r
          /\ session' = IF r.kind = "return" THEN r.val ELSE session
          /\ pc' = IF r.kind = "return" THEN "idle" ELSE "raised"
    /\ call' = [name |-> "create_session"]
    /\ UNCHANGED <<environ, dotenv, session_json, cfg, prog, requests>>

\* save_session(sess)
StoreSaveSession ==
    /\ pc = "idle"
    /\ outcome.call = "create_session"
    /\ session_json' = save_session(session, session_json)
    /\ outcome' = Return("save_session", JNull)
    /\ call' = [name |-> "save_session"]
    /\ UNCHANGED <<environ, dotenv, cfg, session, prog, pc, requests>>

\* load_session(), after the save or with no save before it.  The loaded
\* record is outcome.val; session stays what create_session returned.
StoreLoadSession ==
    /\ pc = "idle"
    /\ outcome.call \in {"none", "save_session"}
    /\ LET r == load_session(session_json) IN
          /\ outcome' = r
          /\ pc' = IF r.kind = "return" THEN "done" ELSE "raised"
    /\ call' = [name |-> "load_session", after |-> outcome.call]
    /\ UNCHANGED <<environ, dotenv, session_json, cfg, session, prog, requests>>

NextStore == StoreCreateSession \/ StoreSaveSession \/ StoreLoadSession

SpecStore == InitStore /\ [][NextStore]_vars

(***************************************************************************)
(* Claims about the session store (checked under SpecStore).               *)
(***************************************************************************)
\* C1: a record returned by create_session, saved by save_session and then
\* loaded by load_session comes back equal, whatever session.json held
\* before the save.
C1_RoundTrip ==
    (call.name = "load_session" /\ call.after = "save_session")
        => (outcome.kind = "return" /\ outcome.val = session)

\* C1's case: a record with two keys, a quote in a key, a nested list and
\* the constant NaN has been created, saved and loaded.
C1_Witness ==
    /\ call.name = "load_session" /\ call.after = "save_session"
    /\ outcome.kind = "return"
    /\ session.keys = << <<"did", DQ>>, <<"accessJwt">> >>
    /\ session.kids[1] = JFloat(NaN)
    /\ session.kids[2] = JArr(<<JStr(<<"a">>), JInt(10)>>)

\* RFC 8259's grammar: the decoder with the constants NaN, Infinity and
\* -Infinity refused (they are no JSON values).
IsValidJson(text) == decode(text, FALSE).ok

\* C7: load_session returns a record only when session.json exists and holds
\* valid JSON; an absent file fails as not found, malformed content fails
\* as a decode failure.
C7_LoadOnlyValidJson ==
    call.name = "load_session" =>
        /\ outcome.kind = "return" =>
              (session_json # NoFile /\ IsValidJson(session_json))
        /\ session_json = NoFile =>
              (outcome.kind = "raise" /\ outcome.error = "FileNotFoundError")
        /\ (session_json # NoFile /\ ~IsValidJson(session_json)) =>
              (outcome.kind = "raise" /\ outcome.error = "JSONDecodeError")

(***************************************************************************)
(* get_feeds.py: fetch and the four query wrappers; session.py:            *)
(* create_session.  A call runs up to urlopen in one step and ends when    *)
(* the response (or the transport's error) arrives.                        *)
(***************************************************************************)
\* str.rstrip("/") with one slash only removed (str.removesuffix).
RStripOne(s, c) == IF s # <<>> /\ Last(s) = c THEN Front(s) ELSE s

\* str.rstrip(c): every trailing c removed.
RECURSIVE rstrip(_, _)
rstrip(s, c) == IF s # <<>> /\ Last(s) = c THEN rstrip(Front(s), c) ELSE s

\* urllib.parse.quote_plus, one character: a space becomes "+", a reserved
\* character its percent escape, anything else (letters, digits, "_.-~")
\* stays.
quote_plus_char(c) ==
    CASE c = SP -> "+"
      [] c = "/" -> "%2F"
      [] c = ":" -> "%3A"
      [] c = "&" -> "%26"
      [] c = "=" -> "%3D"
      [] c = "+" -> "%2B"
      [] c = "%" -> "%25"
      [] c = "?" -> "%3F"
      [] c = "#" -> "%23"
      [] OTHER -> c

quote_plus(s) == [i \in 1..Len(s) |-> quote_plus_char(s[i])]

\* An encoder that joins the pairs without quoting them.
urlencode_raw(params) ==
    Concat([i \in 1..Len(params) |->
        (IF i = 1 THEN <<>> ELSE <<"&">>) \o params[i][1] \o <<"=">> \o params[i][2]])

\* urllib.parse.urlencode(params): key=value pairs, quoted, joined by "&".
\* A mapping is the sequence of its <<key, value>> items in insertion order.
urlencode(params) ==
    Concat([i \in 1..Len(params) |->
        (IF i = 1 THEN <<>> ELSE <<"&">>)
        \o quote_plus(params[i][1]) \o <<"=">> \o quote_plus(params[i][2])])

\* a or b
PyOr(a, b) == IF Truthy(a) THEN a ELSE b

\* f"{token}": str() of the token (a str, an int, True or a float constant).
format_value(v) ==
    CASE v.t = "str" -> v.s
      [] v.t = "int" -> IntText(v.n)
      [] v.t = "true" -> <<"True">>
      [] v.t = "float" ->
            (IF v.s = NaN THEN <<"nan">> ELSE IF v.s = PosInf THEN <<"inf">> ELSE <<"-", "inf">>)

Request(url, method, headers, data) ==
    [url |-> url, method |-> method, headers |-> headers, data |-> data]
NoRequest == Request(<<>>, "none", <<>>, <<>>)

\* What a call has done when it reaches urlopen or raises before it: the
\* endpoint and params as received, the request built, the session record
\* as the call leaves it.
Issued(endpoint, params, sess, req) ==
    [endpoint |-> endpoint, params |-> params, session |-> sess,
     raised |-> FALSE, error |-> "none", req |-> req]
Raised(endpoint, params, sess, e) ==
    [endpoint |-> endpoint, params |-> params, session |-> sess,
     raised |-> TRUE, error |-> e, req |-> NoRequest]

\* The token lookup with a placeholder instead of the failure.
get_token_or_anonymous(sess) ==
    PyOr(PyOr(DictGet(sess, <<"accessJwt">>), DictGet(sess, <<"jwt">>)), JStr(<<"anonymous">>))

\* The token lookup with the two fields in the other order.
get_token_jwt_first(sess) == PyOr(DictGet(sess, <<"jwt">>), DictGet(sess, <<"accessJwt">>))

\* session.get("accessJwt") or session.get("jwt")
get_token(sess) == PyOr(DictGet(sess, <<"accessJwt">>), DictGet(sess, <<"jwt">>))

\* fetch, lines 9-19: the URL, the token, the Authorization header.  The
\* hosts of the model are base URLs with a scheme, which Request() accepts.
fetch(endpoint, params, sess, config) ==
    LET base == rstrip(config.pds_host, "/") \o <<"/", "xrpc", "/">> \o endpoint
        url == IF params # <<>> THEN base \o <<"?">> \o urlencode(params) ELSE base
    IN  IF sess.t # "dict" THEN Raised(endpoint, params, sess, "AttributeError")
        ELSE LET token == get_token(sess) IN
             IF ~Truthy(token)
             THEN Raised(endpoint, params, sess, "RuntimeError: No access JWT found in session")
             ELSE Issued(endpoint, params, sess,
                         Request(url, "GET",
                                 << <<"Authorization", <<"Bearer", SP>> \o format_value(token)>> >>,
                                 <<>>))

\* cursor: str | None
None == [some |-> FALSE, s |-> <<>>]
Some(s) == [some |-> TRUE, s |-> s]

\* get_timeline testing the cursor's truth value instead of "is None".
get_timeline_truthy(sess, config, limit, cursor) ==
    fetch(<<"app.bsky.feed.getTimeline">>,
          IF cursor.s = <<>>
          THEN << <<<<"limit">>, IntText(limit)>> >>
          ELSE << <<<<"limit">>, IntText(limit)>>, <<<<"cursor">>, cursor.s>> >>,
          sess, config)

get_timeline(sess, config, limit, cursor) ==
    fetch(<<"app.bsky.feed.getTimeline">>,
          IF ~cursor.some
          THEN << <<<<"limit">>, IntText(limit)>> >>
          ELSE << <<<<"limit">>, IntText(limit)>>, <<<<"cursor">>, cursor.s>> >>,
          sess, config)

get_follows(sess, config, actor, limit, cursor) ==
    fetch(<<"app.bsky.graph.getFollows">>,
          IF ~cursor.some
          THEN << <<<<"actor">>, actor>>, <<<<"limit">>, IntText(limit)>> >>
          ELSE << <<<<"actor">>, actor>>, <<<<"limit">>, IntText(limit)>>,
                  <<<<"cursor">>, cursor.s>> >>,
          sess, config)

get_author_feed(sess, config, actor, limit, cursor) ==
    fetch(<<"app.bsky.feed.getAuthorFeed">>,
          IF ~cursor.some
          THEN << <<<<"actor">>, actor>>, <<<<"limit">>, IntText(limit)>> >>
          ELSE << <<<<"actor">>, actor>>, <<<<"limit">>, IntText(limit)>>,
                  <<<<"cursor">>, cursor.s>> >>,
          sess, config)

search_posts(sess, config, query, limit, cursor) ==
    fetch(<<"app.bsky.feed.searchPosts">>,
          IF ~cursor.some
          THEN << <<<<"query">>, query>>, <<<<"limit">>, IntText(limit)>> >>
          ELSE << <<<<"query">>, query>>, <<<<"limit">>, IntText(limit)>>,
                  <<<<"cursor">>, cursor.s>> >>,
          sess, config)

\* create_session, lines 7-11: the URL, the JSON body, the POST request.
create_session(config) ==
    LET url == rstrip(config.pds_host, "/")
                   \o <<"/", "xrpc", "/", "com.atproto.server.createSession">>
        payload == JObj(<< <<"identifier">>, <<"password">> >>,
                        << JStr(config.handle), JStr(config.password) >>)
        data == encode(payload, <<",", SP>>, <<":", SP>>)
    IN  Issued(<<"com.atproto.server.createSession">>, <<>>, JNull,
               Request(url, "POST", << <<"Content-type", <<"application/json">>>> >>, data))

(***************************************************************************)
(* The query client: Spec calls fetch, the four wrappers and               *)
(* create_session, in any order, with a configuration and a session record *)
(* drawn from bounded sets, against a server that answers each request     *)
(* with a JSON body, with text that is not JSON, with an error status, or   *)
(* not at all (a transport error).                                         *)
(***************************************************************************)
Hosts ==
    { <<"https://example.test">>,
      <<"https://example.test", "/">>,
      <<"https://example.test", "/", "/">>,
      <<"http://localhost:2583", "/", "pds">> }
Configs ==
    {[pds_host |-> h, handle |-> <<"alice.test">>, password |-> <<"app", "-", "pw">>] :
        h \in Hosts}

TokenA == JStr(<<"tok", "A">>)
TokenB == JStr(<<"tok", "B">>)
Sessions ==
    { JObj(<< <<"accessJwt">>, <<"refreshJwt">> >>, <<TokenA, JStr(<<"r">>)>>),
      JObj(<< <<"jwt">> >>, <<TokenB>>),
      JObj(<< <<"accessJwt">>, <<"jwt">> >>, <<TokenA, TokenB>>),
      JObj(<< <<"accessJwt">>, <<"jwt">> >>, <<JStr(<<>>), TokenB>>),
      JObj(<< <<"accessJwt">>, <<"jwt">> >>, <<JNull, TokenB>>),
      JObj(<< <<"accessJwt">>, <<"jwt">> >>, <<TokenA, JStr(<<>>)>>),
      JObj(<< <<"accessJwt">>, <<"jwt">> >>, <<JStr(<<>>), JStr(<<>>)>>),
      JObj(<< <<"accessJwt">> >>, <<JNull>>),
      JObj(<< <<"did">> >>, <<JStr(<<"did", ":", "plc", ":", "a">>)>>),
      JObj(<<>>, <<>>),
      JArr(<<>>) }

Limits == {5, 50}
Cursors == {None, Some(<<>>), Some(<<"c", "/", "1", "=">>)}
Actors == {<<"alice.test">>, <<"did", ":", "plc", ":", "a", SP, "&", "b">>}
Queries == {<<"bluesky">>, <<"a", "&", "b", "=", "c", "+", "%">>}
Endpoints == {<<"app.bsky.feed.getTimeline">>, <<"app.bsky.actor.getProfile">>}
ParamSets ==
    { <<>>,
      << <<<<"limit">>, <<"5">>>> >>,
      << <<<<"actor">>, <<"a", "?", "#">>>>, <<<<"cursor">>, <<>>>> >> }

Feed == JObj(<< <<"feed">>, <<"cursor">> >>, <<JArr(<<>>), JStr(<<"c", "/", "1", "=">>)>>)
Responses ==
    { [status |-> "200", body |-> Compact(Feed)],
      [status |-> "200", body |-> <<"<html>">>],
      [status |-> "401", body |-> <<"{", "}">>],
      [status |-> "URLError", body |-> <<>>] }

FirstCall ==
    [id |-> 0, name |-> "none", endpoint |-> <<>>, params |-> <<>>, cursor |-> None,
     session |-> JNull]

Init ==
    /\ environ = <<>>
    /\ dotenv = NoEnvFile
    /\ session_json = NoFile
    /\ cfg \in Configs
    /\ session \in Sessions
    /\ prog = "none"
    /\ pc = "idle"
    /\ call = FirstCall
    /\ requests = <<>>
    /\ outcome = NoOutcome

\* A call begins: it raises before urlopen, or its request is issued and it
\* waits for the response.  call.session is the session record as passed in.
Begin(name, r, cursor, sess_after) ==
    /\ pc \in {"idle", "returned", "raised"}
    /\ call' = [id |-> 1 - call.id, name |-> name, endpoint |-> r.endpoint,
                params |-> r.params, cursor |-> cursor, session |-> session]
    /\ session' = sess_after
    /\ IF r.raised
       THEN /\ requests' = <<>>
            /\ outcome' = Raise(name, r.error)
            /\ pc' = "raised"
       ELSE /\ requests' = <<r.req>>
            /\ outcome' = NoOutcome
            /\ pc' = "urlopen"
    /\ UNCHANGED <<environ, dotenv, session_json, cfg, prog>>

CallFetch ==
    \E endpoint \in Endpoints, params \in ParamSets :
        LET r == fetch(endpoint, params, session, cfg) IN Begin("fetch", r, None, r.session)

CallGetTimeline ==
    \E limit \in Limits, cursor \in Cursors :
        LET r == get_timeline(session, cfg, limit, cursor)
        IN  Begin("get_timeline", r, cursor, r.session)

CallGetFollows ==
    \E actor \in Actors, limit \in Limits, cursor \in Cursors :
        LET r == get_follows(session, cfg, actor, limit, cursor)
        IN  Begin("get_follows", r, cursor, r.session)

CallGetAuthorFeed ==
    \E actor \in Actors, limit \in Limits, cursor \in Cursors :
        LET r == get_author_feed(session, cfg, actor, limit, cursor)
        IN  Begin("get_author_feed", r, cursor, r.session)

CallSearchPosts ==
    \E query \in Queries, limit \in Limits, cursor \in Cursors :
        LET r == search_posts(session, cfg, query, limit, cursor)
        IN  Begin("search_posts", r, cursor, r.session)

CallCreateSession == Begin("create_session", create_session(cfg), None, session)

\* urlopen with a retry: a transport error sends the request again.
UrlopenRetries ==
    /\ pc = "urlopen"
    /\ \E resp \in Responses :
          LET r == read_response(call.name, resp) IN
          IF r.error = "URLError"
          THEN /\ requests' = Append(requests, requests[1])
               /\ UNCHANGED <<outcome, pc>>
          ELSE /\ outcome' = r
               /\ pc' = IF r.kind = "return" THEN "returned" ELSE "raised"
               /\ UNCHANGED requests
    /\ UNCHANGED <<environ, dotenv, session_json, cfg, session, prog, call>>

\* urlopen ends (fetch lines 20-22, create_session lines 12-14): the decoded
\* payload is returned or the failure propagates.
UrlopenEnds ==
    /\ pc = "urlopen"
    /\ \E resp \in Responses :
          LET r == read_response(call.name, resp) IN
          /\ outcome' = r
          /\ pc' = IF r.kind = "return" THEN "returned" ELSE "raised"
    /\ UNCHANGED <<environ, dotenv, session_json, cfg, session, prog, call, requests>>

Next ==
    \/ CallFetch
    \/ CallGetTimeline
    \/ CallGetFollows
    \/ CallGetAuthorFeed
    \/ CallSearchPosts
    \/ CallCreateSession
    \/ UrlopenEnds

Spec == Init /\ [][Next]_vars

(***************************************************************************)
(* Claims about the query client (checked under Spec).                     *)
(***************************************************************************)
Wrappers == {"get_timeline", "get_follows", "get_author_feed", "search_posts"}
FetchCalls == Wrappers \cup {"fetch"}
CursorItems(params) == {i \in 1..Len(params) : params[i][1] = <<"cursor">>}

\* C2: a wrapper called without a cursor passes fetch a parameter set with
\* no cursor key; called with a cursor (the empty string included) it passes
\* exactly one cursor item, holding that very string.
C2_CursorForwarded ==
    call.name \in Wrappers =>
        IF call.cursor.some
        THEN /\ Cardinality(CursorItems(call.params)) = 1
             /\ \A i \in CursorItems(call.params) : call.params[i][2] = call.cursor.s
        ELSE CursorItems(call.params) = {}

\* C2's case: search_posts was called with the empty string as cursor.
C2_Witness ==
    /\ call.name = "search_posts"
    /\ call.cursor = Some(<<>>)
    /\ pc = "urlopen"
    /\ call.params[3] = <<<<"cursor">>, <<>>>>

\* C3: with a session record that has neither accessJwt nor jwt, fetch (called
\* directly or by a wrapper) raises the missing-token failure.
C3_NoTokenRaises ==
    ( /\ call.name \in FetchCalls
      /\ call.session.t = "dict"
      /\ ~HasKey(call.session, <<"accessJwt">>)
      /\ ~HasKey(call.session, <<"jwt">>) )
    => ( /\ pc = "raised"
         /\ outcome = Raise(call.name, "RuntimeError: No access JWT found in session")
         /\ requests = <<>> )

\* C3's case: fetch was called with empty params and a record that holds a
\* did only.
C3_Witness ==
    /\ call.name = "fetch"
    /\ call.params = <<>>
    /\ call.session.keys = << <<"did">> >>
    /\ pc = "raised"

\* The host without its trailing slashes: its longest prefix that does not
\* end in a slash.
WithoutTrailingSlashes(host) ==
    LET n == CHOOSE n \in 0..Len(host) :
                /\ n = 0 \/ host[n] # "/"
                /\ \A m \in (n + 1)..Len(host) : host[m] = "/"
    IN  SubSeq(host, 1, n)

\* Percent-decoding as application/x-www-form-urlencoded defines it.
PercentCodes ==
    { <<"+", SP>>, <<"%2F", "/">>, <<"%3A", ":">>, <<"%26", "&">>, <<"%3D", "=">>,
      <<"%2B", "+">>, <<"%25", "%">>, <<"%3F", "?">>, <<"%23", "#">> }
UnquoteChar(c) ==
    IF \E p \in PercentCodes : p[1] = c
    THEN (CHOOSE p \in PercentCodes : p[1] = c)[2]
    ELSE c
Unquote(s) == [i \in 1..Len(s) |-> UnquoteChar(s[i])]

\* The pieces of s between the separators.
RECURSIVE SplitOn(_, _)
SplitOn(s, sep) ==
    IF \E i \in 1..Len(s) : s[i] = sep
    THEN LET i == CHOOSE i \in 1..Len(s) : s[i] = sep /\ \A j \in 1..(i - 1) : s[j] # sep
         IN  <<SubSeq(s, 1, i - 1)>> \o SplitOn(SubSeq(s, i + 1, Len(s)), sep)
    ELSE <<s>>

\* A query string read back: its key=value items, decoded.
QueryItems(q) ==
    LET pieces == SplitOn(q, "&")
        Item(piece) ==
            IF \E i \in 1..Len(piece) : piece[i] = "="
            THEN LET i == CHOOSE i \in 1..Len(piece) :
                            piece[i] = "=" /\ \A j \in 1..(i - 1) : piece[j] # "="
                 IN  <<Unquote(SubSeq(piece, 1, i - 1)), Unquote(SubSeq(piece, i + 1, Len(piece)))>>
            ELSE <<Unquote(piece), <<>>>>
    IN  [i \in 1..Len(pieces) |-> Item(pieces[i])]

\* C5: the URL fetch requests is the host without trailing slashes, "/xrpc/",
\* the endpoint name, and then nothing when params is empty, or "?" and the
\* URL-encoded params (which decode back to params, and hold no raw reserved
\* character) when it is not; the spec's example gives the spec's URL.
C5_FetchUrl ==
    (pc = "urlopen" /\ call.name \in FetchCalls) =>
        LET url == requests[1].url
            prefix == WithoutTrailingSlashes(cfg.pds_host) \o <<"/", "xrpc", "/">> \o call.endpoint
            rest == SubSeq(url, Len(prefix) + 1, Len(url))
        IN  /\ Len(url) >= Len(prefix)
            /\ SubSeq(url, 1, Len(prefix)) = prefix
            /\ IF call.params = <<>>
               THEN rest = <<>>
               ELSE /\ rest # <<>>
                    /\ Head(rest) = "?"
                    /\ \A i \in 2..Len(rest) : rest[i] \notin {SP, "/", ":", "?", "#", "%"}
                    /\ QueryItems(Tail(rest)) = call.params
            /\ ( /\ cfg.pds_host = <<"https://example.test">>
                 /\ call.endpoint = <<"app.bsky.feed.getTimeline">>
                 /\ call.params = << <<<<"limit">>, <<"5">>>> >> )
               => url = <<"https://example.test", "/", "xrpc", "/",
                          "app.bsky.feed.getTimeline", "?", "limit", "=", "5">>

\* C5's case: fetch was called directly with the spec's example.
C5_Witness ==
    /\ pc = "urlopen"
    /\ call.name = "fetch"
    /\ cfg.pds_host = <<"https://example.test">>
    /\ call.endpoint = <<"app.bsky.feed.getTimeline">>
    /\ call.params = << <<<<"limit">>, <<"5">>>> >>

\* C6: for a host that ends in one or more slashes, the URL of fetch and of
\* create_session has the host part, exactly one slash, then "xrpc".
C6_OneSlashBeforeXrpc ==
    (pc = "urlopen" /\ cfg.pds_host # <<>> /\ Last(cfg.pds_host) = "/") =>
        LET url == requests[1].url
            k == CHOOSE k \in 1..Len(url) : url[k] = "xrpc"
        IN  /\ \E j \in 1..Len(url) : url[j] = "xrpc"
            /\ k >= 2
            /\ url[k - 1] = "/"
            /\ k >= 3 => url[k - 2] # "/"
            /\ SubSeq(url, 1, k - 2) = WithoutTrailingSlashes(cfg.pds_host)

\* C6's case: create_session has built its URL from a host that ends in two
\* slashes.
C6_Witness ==
    /\ pc = "urlopen"
    /\ call.name = "create_session"
    /\ cfg.pds_host = <<"https://example.test", "/", "/">>

\* A field that holds a value that is not empty.
NonEmptyField(sess, key) ==
    HasKey(sess, key) /\ DictGet(sess, key) \notin {JNull, JStr(<<>>)}
PrimaryElseSecondary(sess) ==
    IF NonEmptyField(sess, <<"accessJwt">>)
    THEN DictGet(sess, <<"accessJwt">>)
    ELSE DictGet(sess, <<"jwt">>)

\* C9: every GET carries Authorization: Bearer t, t being accessJwt when that
\* field is not empty and jwt otherwise; t is never absent or empty; the
\* session record is as it was passed in.
C9_BearerToken ==
    /\ \A i \in 1..Len(requests) :
          requests[i].method = "GET" =>
              LET t == PrimaryElseSecondary(call.session) IN
              /\ t.t = "str"
              /\ t.s # <<>>
              /\ requests[i].headers = << <<"Authorization", <<"Bearer", SP>> \o t.s>> >>
    /\ call.name \in FetchCalls => session = call.session

\* C9's case: a GET went out under the secondary token, the primary field
\* being the empty string.
C9_Witness ==
    /\ pc = "urlopen"
    /\ call.name = "get_follows"
    /\ DictGet(call.session, <<"accessJwt">>) = JStr(<<>>)
    /\ requests[1].headers = << <<"Authorization", <<"Bearer", SP, "tok", "B">>>> >>

\* C10, in every state: a call has issued at most one request; while it waits
\* it has no outcome; once over it has returned a payload or raised.
C10_State ==
    /\ Len(requests) <= 1
    /\ pc = "urlopen" => (Len(requests) = 1 /\ outcome.kind = "none")
    /\ pc = "returned" => (Len(requests) = 1 /\ outcome.kind = "return")
    /\ pc = "raised" => outcome.kind = "raise"
    /\ pc \in {"idle", "urlopen", "returned", "raised"}

\* C10, in every step: a call that is over issues no request and keeps its
\* outcome (call.id changes when the next call begins).
C10_Step ==
    (pc \in {"returned", "raised"} /\ call'.id = call.id)
        => (requests' = requests /\ outcome' = outcome /\ pc' = pc)

IsSpace(c) == c \in {SP, TAB, NL, "\r"}

RECURSIVE lstrip(_)
lstrip(s) == IF s # <<>> /\ IsSpace(Head(s)) THEN lstrip(Tail(s)) ELSE s

RECURSIVE rstrip_space(_)
rstrip_space(s) == IF s # <<>> /\ IsSpace(Last(s)) THEN rstrip_space(Front(s)) ELSE s

\* str.strip()
strip(s) == lstrip(rstrip_space(s))

\* line.split("=", 1) of a line that holds "=": what precedes the first "="
\* and what follows it.
split_once(line) ==
    LET i == CHOOSE i \in 1..Len(line) : line[i] = "=" /\ \A j \in 1..(i - 1) : line[j] # "="
    IN  <<SubSeq(line, 1, i - 1), SubSeq(line, i + 1, Len(line))>>

\* load_env, lines 9-15: the KEY=VALUE lines of the file, read into a dict.
RECURSIVE read_lines(_, _, _)
read_lines(lines, keys, vals) ==
    IF lines = <<>> THEN [keys |-> keys, kids |-> vals]
    ELSE LET line == strip(Head(lines)) IN
         IF line = <<>> \/ Head(line) = "#" THEN read_lines(Tail(lines), keys, vals)
         ELSE IF \E i \in 1..Len(line) : line[i] = "="
         THEN LET kv == split_once(line)
                  e == DictSet(keys, vals, strip(kv[1]), strip(kv[2]))
              IN  read_lines(Tail(lines), e.keys, e.kids)
         ELSE read_lines(Tail(lines), keys, vals)

\* os.environ[k] = v: the file's value replaces the environment's.
setitem(env, k, v) == (k :> v) @@ env

\* os.environ.setdefault(k, v): an existing value stays.
setdefault(env, k, v) == IF k \in DOMAIN env THEN env ELSE (k :> v) @@ env

\* load_env, lines 18-19: each key of the file goes into os.environ unless
\* it is set there.  putenv refuses an empty name (OSError, EINVAL).
RECURSIVE set_defaults(_, _, _)
set_defaults(env, file_env, i) ==
    IF i > Len(file_env.keys) THEN [environ |-> env, raised |-> FALSE]
    ELSE IF file_env.keys[i] = <<>> /\ <<>> \notin DOMAIN env
         THEN [environ |-> env, raised |-> TRUE]
         ELSE set_defaults(setdefault(env, file_env.keys[i], file_env.kids[i]), file_env, i + 1)

\* load_env(): the dict read from .env (empty when the file is absent) and
\* os.environ afterwards.
load_env(file, env) ==
    LET file_env == IF ~file.exists THEN [keys |-> <<>>, kids |-> <<>>]
                    ELSE read_lines(file.lines, <<>>, <<>>)
        r == set_defaults(env, file_env, 1)
    IN  [env |-> file_env, environ |-> r.environ, raised |-> r.raised]

Required == << <<"PDSHOST">>, <<"BLUESKY_HANDLE">>, <<"BLUESKY_PASSWORD">> >>

InFileEnv(file_env, k) == \E i \in 1..Len(file_env.keys) : file_env.keys[i] = k
FileEnvGet(file_env, k) ==
    file_env.kids[CHOOSE i \in 1..Len(file_env.keys) : file_env.keys[i] = k]

\* os.environ.get(k, cfg.get(k)); None is written as the empty text.
environ_get(env, file_env, k) ==
    IF k \in DOMAIN env THEN env[k]
    ELSE IF InFileEnv(file_env, k) THEN FileEnvGet(file_env, k)
    ELSE <<>>

\* get_config without the check of the required keys.
get_config_unchecked(file, env) ==
    LET l == load_env(file, env) IN
    [raised |-> l.raised, error |-> IF l.raised THEN "OSError" ELSE "none", key |-> <<>>,
     environ |-> l.environ,
     cfg |-> [pds_host |-> environ_get(l.environ, l.env, Required[1]),
              handle |-> environ_get(l.environ, l.env, Required[2]),
              password |-> environ_get(l.environ, l.env, Required[3])]]

\* get_config(): fails on the first required key that neither the file's
\* dict nor os.environ holds; else the three values.
get_config(file, env) ==
    LET l == load_env(file, env)
        Missing(k) == ~InFileEnv(l.env, k) /\ k \notin DOMAIN l.environ
    IN  IF l.raised
        THEN [raised |-> TRUE, error |-> "OSError", key |-> <<>>,
              environ |-> l.environ, cfg |-> NoConfig]
        ELSE IF \E i \in 1..3 : Missing(Required[i])
        THEN [raised |-> TRUE, error |-> "RuntimeError: Missing required env var",
              key |-> Required[CHOOSE i \in 1..3 :
                                  Missing(Required[i]) /\ \A j \in 1..(i - 1) : ~Missing(Required[j])],
              environ |-> l.environ, cfg |-> NoConfig]
        ELSE [raised |-> FALSE, error |-> "none", key |-> <<>>,
              environ |-> l.environ,
              cfg |-> [pds_host |-> environ_get(l.environ, l.env, Required[1]),
                       handle |-> environ_get(l.environ, l.env, Required[2]),
                       password |-> environ_get(l.environ, l.env, Required[3])]]

(***************************************************************************)
(* The entry points: SpecMain runs session.main, get_feeds.main or         *)
(* capture_responses.main once, statement by statement, from a process     *)
(* environment and a .env file drawn from bounded sets, with session.json  *)
(* holding an earlier session.  A failure ends the run (pc = "failed").    *)
(* The files capture_responses writes and what get_feeds prints are left   *)
(* out.                                                                    *)
(***************************************************************************)
MaxEnvLines == 3

EnvValues ==
    (<<"PDSHOST">> :> <<"https://env.test">>)
    @@ (<<"BLUESKY_HANDLE">> :> <<"env.handle">>)
    @@ (<<"BLUESKY_PASSWORD">> :> <<"env", "-", "pw">>)
\* The process environment: any of the three keys set or not.
Environs == {[k \in K |-> EnvValues[k]] : K \in SUBSET DOMAIN EnvValues}

EnvLines ==
    { <<"PDSHOST", "=", "https://file.test", "/">>,
      <<"BLUESKY_HANDLE", "=", "file.handle">>,
      <<"BLUESKY_PASSWORD", "=", "pw", "=", "1">>,
      <<SP, "PDSHOST", SP, "=", SP, "https://other.test", SP>>,
      <<SP, "#", "BLUESKY_HANDLE", "=", "x">>,
      <<SP, SP>>,
      <<"BLUESKY_PASSWORD">>,
      <<"=", "x">> }
EnvFiles == {NoEnvFile} \cup {EnvFile(lines) : lines \in SeqsUpTo(EnvLines, MaxEnvLines)}

Programs == {"session", "get_feeds", "capture_responses"}
Script(p) ==
    CASE p = "session" -> <<"get_config", "create_session", "save_session", "exit">>
      [] p = "get_feeds" ->
            <<"get_config", "load_session", "get_timeline", "get_follows", "input_actor",
              "get_author_feed", "input_query", "search_posts", "exit">>
      [] OTHER ->
            <<"get_config", "load_session", "get_timeline", "get_follows",
              "get_author_feed", "search_posts", "exit">>
\* The statement after stmt in the entry point p.
After(p, stmt) ==
    LET sc == Script(p) IN sc[(CHOOSE i \in 1..Len(sc) : sc[i] = stmt) + 1]

\* What the operator types at a prompt: nothing, or a name between spaces.
Inputs == {<<>>, <<SP>>, <<SP, "bob.test", SP>>}

NewSession == JObj(<< <<"accessJwt">>, <<"did">> >>, <<TokenA, JStr(<<"did", ":", "plc", ":", "a">>)>>)
MainResponses ==
    { [status |-> "200", body |-> Compact(NewSession)],
      [status |-> "401", body |-> <<"{", "}">>] }

InitMain ==
    /\ environ \in Environs
    /\ dotenv \in EnvFiles
    /\ session_json = json_dumps(OldSession)
    /\ cfg = NoConfig
    /\ session = JNull
    /\ prog \in Programs
    /\ pc = "get_config"
    /\ call = [name |-> "none", input |-> <<>>]
    /\ requests = <<>>
    /\ outcome = NoOutcome

\* cfg = get_config()
MainGetConfig ==
    /\ pc = "get_config"
    /\ LET r == get_config(dotenv, environ) IN
          /\ environ' = r.environ
          /\ cfg' = r.cfg
          /\ outcome' = IF r.raised THEN Raise("get_config", r.error)
                        ELSE Return("get_config", JNull)
          /\ call' = [name |-> "get_config", input |-> r.key]
          /\ pc' = IF r.raised THEN "failed" ELSE After(prog, "get_config")
    /\ UNCHANGED <<dotenv, session_json, session, prog, requests>>

\* session = load_session()
MainLoadSession ==
    /\ pc = "load_session"
    /\ LET r == load_session(session_json) IN
          /\ outcome' = r
          /\ session' = IF r.kind = "return" THEN r.val ELSE session
          /\ pc' = IF r.kind = "return" THEN After(prog, "load_session") ELSE "failed"
    /\ call' = [name |-> "load_session", input |-> <<>>]
    /\ UNCHANGED <<environ, dotenv, session_json, cfg, prog, requests>>

\* A call of the entry point reaches urlopen, or raises before it.
MainBegin(name, r) ==
    /\ call' = [name |-> name, input |-> call.input]
    /\ IF r.raised
       THEN /\ outcome' = Raise(name, r.error)
            /\ pc' = "failed"
            /\ UNCHANGED requests
       ELSE /\ outcome' = NoOutcome
            /\ pc' = "urlopen"
            /\ requests' = Append(requests, r.req)
    /\ UNCHANGED <<environ, dotenv, session_json, cfg, session, prog>>

\* sess = create_session(cfg), up to urlopen
MainCreateSession ==
    /\ pc = "create_session"
    /\ MainBegin("create_session", create_session(cfg))

\* limit=20 in get_feeds.main, limit=5 in capture_responses.main
MainLimit == IF prog = "get_feeds" THEN 20 ELSE 5

MainGetTimeline ==
    /\ pc = "get_timeline"
    /\ MainBegin("get_timeline", get_timeline(session, cfg, MainLimit, None))

MainGetFollows ==
    /\ pc = "get_follows"
    /\ MainBegin("get_follows", get_follows(session, cfg, cfg.handle, MainLimit, None))

\* the actor is what was typed (get_feeds) or the handle (capture_responses)
MainGetAuthorFeed ==
    /\ pc = "get_author_feed"
    /\ MainBegin("get_author_feed",
                 get_author_feed(session, cfg,
                                 IF prog = "get_feeds" THEN call.input ELSE cfg.handle,
                                 MainLimit, None))

MainSearchPosts ==
    /\ pc = "search_posts"
    /\ MainBegin("search_posts",
                 search_posts(session, cfg,
                              IF prog = "get_feeds" THEN call.input ELSE <<"bluesky">>,
                              MainLimit, None))

\* input(...).strip(), and the "if actor:" / "if query:" that skips the call
MainInput ==
    /\ pc \in {"input_actor", "input_query"}
    /\ \E typed \in Inputs :
          LET text == strip(typed) IN
          /\ call' = [name |-> pc, input |-> text]
          /\ pc' = IF text # <<>> THEN After(prog, pc) ELSE After(prog, After(prog, pc))
    /\ UNCHANGED <<environ, dotenv, session_json, cfg, session, prog, requests, outcome>>

\* urlopen ends: the payload is returned to main (create_session's becomes
\* the session record), or the failure ends the run.
MainUrlopenEnds ==
    /\ pc = "urlopen"
    /\ \E resp \in MainResponses :
          LET r == read_response(call.name, resp) IN
          /\ outcome' = r
          /\ session' = IF r.kind = "return" /\ call.name = "create_session"
                        THEN r.val ELSE session
          /\ pc' = IF r.kind = "return" THEN After(prog, call.name) ELSE "failed"
    /\ UNCHANGED <<environ, dotenv, session_json, cfg, prog, call, requests>>

\* save_session(sess)
MainSaveSession ==
    /\ pc = "save_session"
    /\ session_json' = save_session(session, session_json)
    /\ outcome' = Return("save_session", JNull)
    /\ call' = [name |-> "save_session", input |-> <<>>]
    /\ pc' = "exit"
    /\ UNCHANGED <<environ, dotenv, cfg, session, prog, requests>>

NextMain ==
    \/ MainGetConfig
    \/ MainLoadSession
    \/ MainCreateSession
    \/ MainGetTimeline
    \/ MainGetFollows
    \/ MainGetAuthorFeed
    \/ MainSearchPosts
    \/ MainInput
    \/ MainUrlopenEnds
    \/ MainSaveSession

SpecMain == InitMain /\ [][NextMain]_vars

(***************************************************************************)
(* Claims about the entry points (checked under SpecMain).                 *)
(***************************************************************************)
\* A line without the white space around it.
Trimmed(line) ==
    LET inked == {i \in 1..Len(line) : line[i] \notin {SP, TAB, NL, "\r"}} IN
    IF inked = {} THEN <<>>
    ELSE SubSeq(line, CHOOSE i \in inked : \A j \in inked : i <= j,
                      CHOOSE i \in inked : \A j \in inked : i >= j)

\* Where a KEY=VALUE line splits: at its first "=".
FirstEquals(t) == CHOOSE i \in 1..Len(t) : t[i] = "=" /\ \A j \in 1..(i - 1) : t[j] # "="

\* The line gives key k a value: it is no comment, and k is what stands
\* before its first "=".
Defines(line, k) ==
    LET t == Trimmed(line) IN
    /\ t # <<>>
    /\ t[1] # "#"
    /\ \E i \in 1..Len(t) : t[i] = "="
    /\ Trimmed(SubSeq(t, 1, FirstEquals(t) - 1)) = k
ValueOf(line) ==
    LET t == Trimmed(line) IN Trimmed(SubSeq(t, FirstEquals(t) + 1, Len(t)))

\* The .env file gives k a value; the value is that of the last such line.
FileDefines(k) == dotenv.exists /\ \E n \in 1..Len(dotenv.lines) : Defines(dotenv.lines[n], k)
FileValue(k) ==
    ValueOf(dotenv.lines[CHOOSE n \in 1..Len(dotenv.lines) :
                            /\ Defines(dotenv.lines[n], k)
                            /\ \A m \in (n + 1)..Len(dotenv.lines) : ~Defines(dotenv.lines[m], k)])

RequiredKeys == {Required[i] : i \in 1..3}
CfgValue(c, i) == IF i = 1 THEN c.pds_host ELSE IF i = 2 THEN c.handle ELSE c.password

\* C4: in each entry point, when a required key is in neither the process
\* environment nor the .env file, the run fails in get_config and no HTTP
\* request is ever issued.
C4_NoRequestWithoutConfig ==
    (\E k \in RequiredKeys : k \notin DOMAIN environ /\ ~FileDefines(k)) =>
        /\ requests = <<>>
        /\ pc \in {"get_config", "failed"}
        /\ pc = "failed" => (outcome.kind = "raise" /\ outcome.call = "get_config")

\* C4's case: capture_responses.main ran with the host in the environment, the
\* handle in the file and no password anywhere, and failed on the password.
C4_Witness ==
    /\ prog = "capture_responses"
    /\ pc = "failed"
    /\ <<"PDSHOST">> \in DOMAIN environ
    /\ FileDefines(<<"BLUESKY_HANDLE">>)
    /\ ~FileDefines(<<"BLUESKY_PASSWORD">>)
    /\ <<"BLUESKY_PASSWORD">> \notin DOMAIN environ
    /\ outcome = Raise("get_config", "RuntimeError: Missing required env var")
    /\ call.input = <<"BLUESKY_PASSWORD">>
    /\ requests = <<>>

\* C8, the step of get_config: every value of the process environment stays
\* as it was, and the configuration returned carries, for each required key,
\* the environment's value when it has one and the file's value otherwise.
C8_Step ==
    pc = "get_config" =>
        /\ \A k \in DOMAIN environ : k \in DOMAIN environ' /\ environ'[k] = environ[k]
        /\ pc' \notin {"get_config", "failed"} =>
              \A i \in 1..3 :
                  CfgValue(cfg', i) = IF Required[i] \in DOMAIN environ
                                      THEN environ[Required[i]]
                                      ELSE FileValue(Required[i])

\* C8: the process environment takes precedence over the .env file, which
\* load_env never lets overwrite it.
C8_EnvironmentWins == [][C8_Step]_vars

\* C8's case: get_config returned with PDSHOST set in the environment and,
\* differently, in the file, and with the handle set in the file only.
C8_Witness ==
    /\ pc = "load_session"
    /\ FileDefines(<<"PDSHOST">>)
    /\ FileValue(<<"PDSHOST">>) = <<"https://other.test">>
    /\ cfg.pds_host = <<"https://env.test">>
    /\ environ[<<"PDSHOST">>] = <<"https://env.test">>
    /\ cfg.handle = <<"file.handle">>

====
